---------------------------- MODULE Spec2Model ----------------------------
(***************************************************************************)
(* Retrieval layer of the insurance RAG service                            *)
(* (back/app/services/rag_service.py): the document_chunks table, the      *)
(* nearest-neighbour scan, the insurer filter with its fallbacks, the      *)
(* per-page dedup, the keyword rerank and the truncation to top_k.         *)
(*                                                                         *)
(* Representation.                                                         *)
(*  - A Python/SQL string is a sequence of characters, so that substring   *)
(*    tests, whitespace removal and case folding are computed.  An ASCII   *)
(*    character is a one-letter string; a Hangul syllable is written as    *)
(*    its romanisation, always two letters or more ("gong" for U+ACF5).    *)
(*  - None / SQL NULL of a text column is the value None below: its only   *)
(*    element is not a character, so it equals no string.                  *)
(*    Any other non-ASCII character is written by its name in capitals.    *)
(*  - An embedding is a tuple of integers; a NULL embedding is <<>>.       *)
(*  - A similarity score is a fixed-point number, in units of 1/ScoreScale,*)
(*    truncated toward zero.                                               *)
(***************************************************************************)
EXTENDS Integers, Sequences, FiniteSets, TLC

VARIABLES
    store,      \* the rows of table document_chunks
    request,    \* arguments of the last _search_top_k call, or NoRequest
    raw_hits,   \* the raw_hits list that call built from the scanned rows
    response,   \* what that call returned or raised
    arg,        \* the argument of a text function (normaliser, cleaner, splitter)
    result,     \* the function applied to arg and what it returned
    retry,      \* the _with_retries call in progress (openai_service.py)
    embedder,   \* the global _EMBEDDER and the threads inside _get_embedder
    sessions,   \* the database sessions opened by the question entry points
    chatlog     \* tables conversations and messages, and the /chat/log requests

\* the variables of the procedures that run in steps
procs == <<retry, embedder, sessions, chatlog>>

vars == <<store, request, raw_hits, response, arg, result, procs>>

-----------------------------------------------------------------------------
(* Bounds of the model *)

\* rows ingested one at a time
MaxChunks == 3
\* pages of the PDF that IngestPdf loads in one transaction
BigDocPages == 51
\* equal-distance rows up to this many are returned in every possible order
MaxTieGroup == 3
\* resolution of a similarity score: scores are multiples of 1/ScoreScale
ScoreScale == 100
\* longest insurer name given to the normalisers, in characters
MaxNameLen == 3
\* longest question given to _clean_query, in characters
MaxQueryLen == 5
\* longest chunk content formatted on its own, in characters
MaxContentLen == 4
\* longest list of chunks formatted into one context
MaxBlocks == 3
\* largest `retries` argument of _with_retries (the default is 2)
MaxRetries == 2
\* longest `messages` list of a /chat/completion request
MaxMessages == 2
\* worker threads that serve /qa/ask and /qa/search at the same time
MaxThreads == 2
\* calls of the entry points, one after the other, whose sessions are counted
MaxCalls == 2
\* requests to /chat/log, one after the other
MaxRequests == 3

-----------------------------------------------------------------------------
(* Integers and sequences *)

Max(a, b) == IF a >= b THEN a ELSE b
Min(a, b) == IF a <= b THEN a ELSE b

\* Python's s[:n], for any integer n
Take(s, n) ==
    IF n >= 0 THEN SubSeq(s, 1, Min(n, Len(s)))
    ELSE SubSeq(s, 1, Max(Len(s) + n, 0))

Range(s) == {s[i] : i \in 1..Len(s)}

-----------------------------------------------------------------------------
(* Strings *)

None == <<"None">>

WhiteSpace == {" ", "\t", "\n"}
NotWs(c) == c \notin WhiteSpace

UpperChars == <<"A","B","C","D","E","F","G","H","I","J","K","L","M",
                "N","O","P","Q","R","S","T","U","V","W","X","Y","Z">>
LowerChars == <<"a","b","c","d","e","f","g","h","i","j","k","l","m",
                "n","o","p","q","r","s","t","u","v","w","x","y","z">>

LowerChar(c) ==
    IF \E i \in 1..Len(UpperChars) : UpperChars[i] = c
    THEN LowerChars[CHOOSE i \in 1..Len(UpperChars) : UpperChars[i] = c]
    ELSE c

Lower(s) == [i \in 1..Len(s) |-> LowerChar(s[i])]

\* Python's `k in t`
Contains(t, k) ==
    \E i \in 0..(Len(t) - Len(k)) : SubSeq(t, i + 1, i + Len(k)) = k

\* Python's str.strip()
RECURSIVE LStrip(_)
LStrip(s) == IF s # <<>> /\ Head(s) \in WhiteSpace THEN LStrip(Tail(s)) ELSE s
RECURSIVE RStrip(_)
RStrip(s) ==
    IF s # <<>> /\ s[Len(s)] \in WhiteSpace
    THEN RStrip(SubSeq(s, 1, Len(s) - 1)) ELSE s
Strip(s) == RStrip(LStrip(s))

Digits == <<"0","1","2","3","4","5","6","7","8","9">>

\* Python's str(n) for n >= 0
RECURSIVE IntToStr(_)
IntToStr(n) ==
    IF n < 10 THEN <<Digits[n + 1]>>
    ELSE Append(IntToStr(n \div 10), Digits[(n % 10) + 1])

\* PostgreSQL's  source ILIKE '%' || pat || '%'  for a pattern without the
\* LIKE wildcards % and _ ; a NULL source yields NULL, which WHERE rejects.
ILikeContains(source, pat) ==
    /\ source # None
    /\ Contains(Lower(source), Lower(pat))

-----------------------------------------------------------------------------
(* Insurer normalisation *)

\* the alias table of _norm_insurer, key -> canonical label
mapping ==
    << <<<<"D","B","son","hae","bo","heom">>, <<"D","B","son","hae","bo","heom">>>>,
       <<<<"D","B","son","hae">>, <<"D","B","son","hae","bo","heom">>>>,
       <<<<"dong","bu","hwa","jae">>, <<"D","B","son","hae","bo","heom">>>>,
       <<<<"d","b","i","n","s","u","r","a","n","c","e">>,
          <<"D","B","son","hae","bo","heom">>>>,
       <<<<"hyeon","dae","hae","sang">>, <<"hyeon","dae","hae","sang">>>>,
       <<<<"H","I">>, <<"hyeon","dae","hae","sang">>>>,
       <<<<"h","y","u","n","d","a","e","m","a","r","i","n","e">>,
          <<"hyeon","dae","hae","sang">>>>,
       <<<<"sam","seong","hwa","jae">>, <<"sam","seong","hwa","jae">>>>,
       <<<<"S","a","m","s","u","n","g","F","i","r","e">>,
          <<"sam","seong","hwa","jae">>>>,
       <<<<"gong","tong">>, <<"gong","tong">>>>,
       <<<<"pyo","jun">>, <<"gong","tong">>>>,
       <<<<"ga","yi","deu">>, <<"gong","tong">>>> >>

Common == <<"gong","tong">>

\* dict.get(s, s)
MappingGet(s) ==
    IF \E i \in 1..Len(mapping) : mapping[i][1] = s
    THEN mapping[CHOOSE i \in 1..Len(mapping) : mapping[i][1] = s][2]
    ELSE s

\* Python truthiness of an Optional[str]
Falsy(s) == s = None \/ s = <<>>

\* variant: mapping.get(s), an unlisted name gives None
_norm_insurer_listed_only(name) ==
    IF Falsy(name) THEN None
    ELSE LET s == SelectSeq(name, NotWs)
         IN  IF \E i \in 1..Len(mapping) : mapping[i][1] = s
             THEN MappingGet(s) ELSE None

_norm_insurer(name) ==
    IF Falsy(name) THEN None
    ELSE MappingGet(SelectSeq(name, NotWs))

\* the alias table of _norm_insurer_py (vector_search.py), key -> label
mapping_py ==
    << <<<<"d","b","son","hae">>, <<"d","b","son","hae","bo","heom">>>>,
       <<<<"d","b","son","hae","bo","heom">>, <<"d","b","son","hae","bo","heom">>>>,
       <<<<"d","b">>, <<"d","b","son","hae","bo","heom">>>>,
       <<<<"dong","bu","hwa","jae">>, <<"d","b","son","hae","bo","heom">>>>,
       <<<<"hyeon","dae","hae","sang">>, <<"hyeon","dae","hae","sang">>>>,
       <<<<"hyeon","dae","hae","sang","hwa","jae">>, <<"hyeon","dae","hae","sang">>>>,
       <<<<"sam","seong","hwa","jae">>, <<"sam","seong","hwa","jae">>>>,
       <<<<"han","hwa","son","hae","bo","heom">>, <<"han","hwa","son","hae","bo","heom">>>>,
       <<<<"k","b","son","hae","bo","heom">>, <<"k","b","son","hae","bo","heom">>>>,
       <<<<"gong","tong">>, <<"gong","tong">>>>,
       <<<<"pyo","jun">>, <<"gong","tong">>>>,
       <<<<"pyo","jun","yak","gwan">>, <<"gong","tong">>>> >>

MappingPyGet(s) ==
    IF \E i \in 1..Len(mapping_py) : mapping_py[i][1] = s
    THEN mapping_py[CHOOSE i \in 1..Len(mapping_py) : mapping_py[i][1] = s][2]
    ELSE s

\* str(name).strip().lower().replace(" ", "")
_norm_insurer_py(name) ==
    IF Falsy(name) THEN None
    ELSE MappingPyGet(SelectSeq(Lower(Strip(name)), LAMBDA c : c # " "))

-----------------------------------------------------------------------------
(* Keyword score *)

_KEYWORDS ==
    << <<"cheong","gu">>, <<"seo","ryu">>, <<"gu","bi","seo","ryu">>, <<"je","chul">>,
       <<"bo","heom","geum">>, <<"sin","cheong","seo">>, <<"jin","dan","seo">>,
       <<"yeong","su","jeung">>, <<"sa","bon">>, <<"ip","won">>, <<"toe","won">>,
       <<"myeon","chaek">>, <<"teuk","yak">> >>

_keyword_score(text) ==
    LET t == IF Falsy(text) THEN <<>> ELSE text
    IN  Cardinality({i \in 1..Len(_KEYWORDS) : Contains(t, _KEYWORDS[i])})

-----------------------------------------------------------------------------
(* Vectors: pgvector's <-> (Euclidean distance) and <=> (cosine distance) *)

RECURSIVE Dot(_, _)
Dot(a, b) == IF a = <<>> THEN 0 ELSE Head(a) * Head(b) + Dot(Tail(a), Tail(b))

NormSq(a) == Dot(a, a)

\* embedding <-> query_vec, squared (the square root keeps the order)
L2Sq(a, b) == NormSq([i \in 1..Len(a) |-> a[i] - b[i]])

\* the largest s in lo..hi with s * s * n <= t, found by halving
RECURSIVE LargestSquareWithin(_, _, _, _)
LargestSquareWithin(lo, hi, n, t) ==
    IF lo = hi THEN lo
    ELSE LET mid == (lo + hi + 1) \div 2
         IN  IF mid * mid * n <= t
             THEN LargestSquareWithin(mid, hi, n, t)
             ELSE LargestSquareWithin(lo, mid - 1, n, t)

\* the cosine of the angle between a and b, in units of 1/ScoreScale, rounded
\* towards zero: |cos| = sqrt(d * d / n)
Cosine(a, b) ==
    LET d == Dot(a, b)
        n == NormSq(a) * NormSq(b)
        t == ScoreScale * ScoreScale * d * d
        m == LargestSquareWithin(0, ScoreScale, n, t)
    IN  IF d >= 0 THEN m ELSE 0 - m

\* embedding <=> query_vec
CosineDistance(a, b) == ScoreScale - Cosine(a, b)

\* 1 - (embedding <=> (:query_vec)::vector) AS score
ScoreOf(embedding, query_vec) == ScoreScale - CosineDistance(embedding, query_vec)

NullVec == <<>>

-----------------------------------------------------------------------------
(* The rows of document_chunks *)

SAMSUNG == <<"sam","seong","hwa","jae">>
HYUNDAI == <<"hyeon","dae","hae","sang">>
PYOJUN  == <<"pyo","jun">>
\* a category that contains an insurer's name without being one of its aliases
SAMSUNG_RIDER == SAMSUNG \o <<" ","teuk","yak">>

PdfName(stem) == stem \o <<".","p","d","f">>

TXT_PLAIN   == <<"yak","gwan">>
TXT_MEDICAL == <<"jin","dan","seo">>
TXT_PAPERS  == <<"gu","bi","seo","ryu">>

\* A row.  page = 0 stands for a NULL page as well: every use of the column
\* is `page or ...`, which treats 0 and None alike.
Row(id, doc_id, chunk_id, source, page, file_name, embedding, content) ==
    [id |-> id, doc_id |-> doc_id, chunk_id |-> chunk_id, source |-> source,
     page |-> page, file_name |-> file_name, clause_title |-> None,
     embedding |-> embedding, content |-> content]

\* The rows the single-row loaders may write.  Embeddings are unit vectors
\* scaled by 5 and rounded to the grid, as a stored float vector is a rounded
\* unit vector: their norms are close to each other, not equal.
Corpus ==
    { Row(1, <<"s">>, 0, SAMSUNG, 1, PdfName(<<"s">>), <<4, 3>>, TXT_PLAIN),
      Row(2, <<"s">>, 1, SAMSUNG, 1, PdfName(<<"s">>), <<3, 4>>, TXT_PLAIN),
      Row(3, <<"s">>, 2, SAMSUNG, 2, PdfName(<<"s">>), <<-2, 4>>, TXT_PLAIN),
      Row(4, <<"s">>, 3, SAMSUNG, 2, PdfName(<<"s">>), <<-2, 5>>, TXT_PLAIN),
      Row(5, <<"c">>, 0, Common, 1, PdfName(<<"c">>), <<3, 4>>, TXT_PLAIN),
      Row(6, <<"g">>, 0, PYOJUN, 1, PdfName(<<"g">>), <<0, 5>>, TXT_PAPERS),
      Row(7, <<"h">>, 0, HYUNDAI, 1, PdfName(<<"h">>), <<4, 4>>, TXT_MEDICAL),
      Row(8, <<"t">>, 0, SAMSUNG_RIDER, 1, PdfName(<<"t">>), <<4, 3>>, TXT_PLAIN),
      Row(9, <<"n">>, 0, SAMSUNG, 1, PdfName(<<"n">>), NullVec, TXT_PLAIN),
      Row(10, <<"x">>, 0, Common, 0, None, <<4, 3>>, TXT_PLAIN),
      Row(11, <<"x">>, 1, Common, 0, None, <<0, 5>>, TXT_MEDICAL) }

\* the embedding the backfill computes for a row's content
PassageEmbedding(content) == IF content = TXT_PLAIN THEN <<4, 3>> ELSE <<0, 5>>

\* a PDF of BigDocPages pages, one chunk per page, under the folder policy_type
BigDoc(policy_type) ==
    { Row(100 + p, <<"b">>, p - 1, policy_type, p, PdfName(<<"b">>),
          <<4, 3>>, TXT_PLAIN) : p \in 1..BigDocPages }

\* the arguments the callers pass: the vectors the embedder returns for the
\* questions asked, and a vector of another dimension that only a caller of
\* the (session, vector) forms can pass
QueryVecs == { <<3, 4>>, <<0, 5>> }
VectorArgs == QueryVecs \cup { <<3, 4, 0>> }
Insurers  == { None, SAMSUNG, <<"S","a","m","s","u","n","g"," ","F","i","r","e">>,
               PYOJUN, HYUNDAI }

-----------------------------------------------------------------------------
(* The SQL statement of _search_top_k *)

\* WHERE source ILIKE '%' || :insurer || '%'   (no WHERE clause without want)
SelectRows(rows, want) ==
    IF want # <<>> THEN {c \in rows : ILikeContains(c.source, want)} ELSE rows

RECURSIVE Perms(_)
Perms(G) ==
    IF G = {} THEN {<<>>}
    ELSE UNION {{<<x>> \o p : p \in Perms(G \ {x})} : x \in G}

RECURSIVE ById(_)
ById(G) ==
    IF G = {} THEN <<>>
    ELSE LET x == CHOOSE y \in G : \A z \in G : y.id <= z.id
         IN  <<x>> \o ById(G \ {x})

\* The orders in which rows of equal sort key may come back: SQL leaves it
\* open.  Every order for a group of at most MaxTieGroup rows; for a larger
\* group only the order of the primary key.
TieOrders(G) == IF Cardinality(G) <= MaxTieGroup THEN Perms(G) ELSE {ById(G)}

\* ORDER BY embedding <-> (:query_vec)::vector   (ascending, NULLs last)
RECURSIVE OrderByDistance(_, _)
OrderByDistance(rows, query_vec) ==
    IF rows = {} THEN {<<>>}
    ELSE LET known == {c \in rows : c.embedding # NullVec}
             G == IF known = {} THEN rows
                  ELSE {c \in known : \A d \in known :
                           L2Sq(c.embedding, query_vec) <= L2Sq(d.embedding, query_vec)}
         IN  UNION {{g \o rest : rest \in OrderByDistance(rows \ G, query_vec)}
                    : g \in TieOrders(G)}

\* db.execute(sql, params).fetchall(): every list of rows the statement may
\* return, LIMIT :limit applied
Fetchall(rows, query_vec, want, limit) ==
    {Take(o, limit) : o \in OrderByDistance(SelectRows(rows, want), query_vec)}

\* The operators <-> and <=> raise "different vector dimensions" on the first
\* selected row whose embedding has not the dimension of the query vector.
\* They are strict: a NULL embedding is never compared.  Nothing in
\* _search_top_k looks at len(query_vec) before the statement runs.
DimensionMismatch(rows, query_vec, want) ==
    \E c \in SelectRows(rows, want) :
        c.embedding # NullVec /\ Len(c.embedding) # Len(query_vec)

Fetched(rows) == [status |-> "ok", rows |-> rows]
Failed(error) == [status |-> error, rows |-> <<>>]

\* line 192 as a whole: what db.execute(...).fetchall() may do.  unreachable
\* says that the connection or the statement fails for a reason outside the
\* table (the server is down, the table is missing).
Execute(rows, query_vec, want, limit, unreachable) ==
    IF unreachable THEN {Failed("OperationalError")}
    ELSE IF DimensionMismatch(rows, query_vec, want) THEN {Failed("DataError")}
    ELSE {Fetched(r) : r \in Fetchall(rows, query_vec, want, limit)}

-----------------------------------------------------------------------------
(* Filter, dedup, rerank *)

\* variant: only the requested category passes, `return ins == want`
_insurer_ok_exact(chunk, want) ==
    IF Falsy(want) THEN TRUE
    ELSE LET n == _norm_insurer(chunk.policy_type)
             ins == IF Falsy(n) THEN Common ELSE n
         IN  ins = want

\* variant: the Python filter matches by substring, as the SQL filter does
_insurer_ok_substring(chunk, want) ==
    IF Falsy(want) THEN TRUE
    ELSE LET n == _norm_insurer(chunk.policy_type)
             ins == IF Falsy(n) THEN Common ELSE n
         IN  Contains(ins, want) \/ ins = Common

_insurer_ok(chunk, want) ==
    IF Falsy(want) THEN TRUE
    ELSE LET n == _norm_insurer(chunk.policy_type)
             ins == IF Falsy(n) THEN Common ELSE n
         IN  ins \in {want, Common}

\* Python's `a or b` on optional strings
OrElse(a, b) == IF Falsy(a) THEN b ELSE a

DedupKey(h) ==
    << Strip(OrElse(OrElse(h.file_name, h.doc_id), <<>>)),
       IF h.page = 0 THEN <<>> ELSE Strip(IntToStr(h.page)) >>

RECURSIVE DedupFrom(_, _)
DedupFrom(hits, seen) ==
    IF hits = <<>> THEN <<>>
    ELSE LET h == Head(hits)
             key == DedupKey(h)
         IN  IF key \in seen THEN DedupFrom(Tail(hits), seen)
             ELSE <<h>> \o DedupFrom(Tail(hits), seen \cup {key})

_dedup_by_file_page(hits) == DedupFrom(hits, {})

\* bonus_per_match = 0.03
BonusPerMatch == (3 * ScoreScale) \div 100

\* variant: a descending sort that puts a later equal key first
RECURSIVE InsertDescBeforeEqual(_, _)
InsertDescBeforeEqual(sorted, x) ==
    IF sorted = <<>> THEN <<x>>
    ELSE IF Head(sorted).score > x.score
         THEN <<Head(sorted)>> \o InsertDescBeforeEqual(Tail(sorted), x)
         ELSE <<x>> \o sorted

\* sorted(out, key=score, reverse=True): descending, equal keys keep their order
RECURSIVE InsertDesc(_, _)
InsertDesc(sorted, x) ==
    IF sorted = <<>> THEN <<x>>
    ELSE IF Head(sorted).score >= x.score
         THEN <<Head(sorted)>> \o InsertDesc(Tail(sorted), x)
         ELSE <<x>> \o sorted

RECURSIVE SortedReverse(_)
SortedReverse(out) ==
    IF out = <<>> THEN <<>>
    ELSE InsertDesc(SortedReverse(SubSeq(out, 1, Len(out) - 1)), out[Len(out)])

WithBonus(h) ==
    [h EXCEPT !.score = h.score + BonusPerMatch * _keyword_score(OrElse(h.content, <<>>))]

_rerank_by_keywords(hits) ==
    SortedReverse([i \in 1..Len(hits) |-> WithBonus(hits[i])])

\* variant: the bonus is added to the dictionary given, h["score"] = base + bonus
GivenAfterRerank_InPlace(h) == WithBonus(h)

\* a dictionary given to _rerank_by_keywords, after the call: the bonus goes
\* to the copy hh = dict(h), the dictionary given keeps its score
GivenAfterRerank(h) == h

-----------------------------------------------------------------------------
(* _search_top_k *)

RETRIEVAL_BUDGET_MULTIPLIER == 4
RETRIEVAL_BUDGET_MIN == 20
MaxTopK == 50

\* want = _norm_insurer(insurer); if not want: want = ""
Want(insurer) == OrElse(_norm_insurer(insurer), <<>>)

\* variant: top_k = max(1, int(top_k))
ClampTopK_NoCap(top_k) == Max(1, top_k)

\* variant: top_k = min(int(top_k), 50)
ClampTopK_NoFloor(top_k) == Min(top_k, MaxTopK)

\* top_k = max(1, min(int(top_k), 50))
ClampTopK(top_k) == Max(1, Min(top_k, MaxTopK))

Budget(top_k) ==
    Max(ClampTopK(top_k) * Max(RETRIEVAL_BUDGET_MULTIPLIER, 1), RETRIEVAL_BUDGET_MIN)

Hit(r, query_vec) ==
    [doc_id |-> r.doc_id, chunk_id |-> r.chunk_id, content |-> r.content,
     policy_type |-> r.source, page |-> r.page, file_name |-> r.file_name,
     clause_title |-> r.clause_title, score |-> ScoreOf(r.embedding, query_vec)]

\* float(r.score) raises TypeError on the NULL score of a NULL embedding
ScoreIsNull(rows) == \E i \in 1..Len(rows) : rows[i].embedding = NullVec

RawHits(rows, query_vec) ==
    IF ScoreIsNull(rows) THEN <<>>
    ELSE [i \in 1..Len(rows) |-> Hit(rows[i], query_vec)]

\* the insurer filter and its two fallbacks
FilterHits(hits_in, want) ==
    LET tier1 == SelectSeq(hits_in, LAMBDA h : _insurer_ok(h, want))
        tier2 == SelectSeq(hits_in, LAMBDA h : _norm_insurer(h.policy_type) = Common)
    IN  IF tier1 # <<>> THEN tier1
        ELSE IF want # <<>> /\ tier2 # <<>> THEN tier2
        ELSE hits_in

\* the hits that survive the filter and the dedup, reranked
Ranked(hits_in, want) ==
    _rerank_by_keywords(_dedup_by_file_page(FilterHits(hits_in, want)))

\* What a call did: status is "ok" or the exception raised, hits is the list
\* _search_top_k returned, value is what the entry point called returned.
Ok(hits) == [status |-> "ok", hits |-> hits, value |-> hits]
Raised(error) == [status |-> error, hits |-> <<>>, value |-> <<>>]

\* _search_top_k from what line 192 did: an exception of the statement is not
\* caught, nor is the TypeError of float(None)
_search_top_k(fetched, query_vec, insurer, top_k) ==
    IF fetched.status # "ok" THEN Raised(fetched.status)
    ELSE IF ScoreIsNull(fetched.rows) THEN Raised("TypeError")
    ELSE Ok(Take(Ranked(RawHits(fetched.rows, query_vec), Want(insurer)),
                 ClampTopK(top_k)))

-----------------------------------------------------------------------------
(* _format_blocks and the public entry points *)

Separator == <<"\n","\n","-","-","-","\n","\n">>

\* sep.join(blocks)
RECURSIVE Join(_, _)
Join(sep, blocks) ==
    IF blocks = <<>> THEN <<>>
    ELSE IF Len(blocks) = 1 THEN blocks[1]
    ELSE blocks[1] \o sep \o Join(sep, Tail(blocks))

\* one block of _format_blocks: "(file p.N)[ . clause]\ncontent"
Block(h) ==
    LET file_name == Strip(OrElse(OrElse(h.file_name, h.doc_id),
                                  <<"d","o","c","u","m","e","n","t">>))
        page == IF h.page = 0 THEN <<"?">> ELSE Strip(IntToStr(h.page))
        content == Strip(OrElse(h.content, <<>>))
        clause == Strip(OrElse(h.clause_title, <<>>))
        head == <<"(">> \o file_name \o <<" ","p",".">> \o page \o <<")">>
        headc == IF clause # <<>> THEN head \o <<" ","MIDDLE_DOT"," ">> \o clause
                 ELSE head
    IN  headc \o <<"\n">> \o content

_format_blocks(hits) == Join(Separator, [i \in 1..Len(hits) |-> Block(hits[i])])

\* the forms that take a question embed it first; the others take a vector
QuestionEntries == {"search_text", "retrieve_context_A"}
VectorEntries == {"_search_top_k", "retrieve_context_B"}

\* _get_embedder().embed([q], is_query=True)[0] raised
EmbedderError == Raised("EmbedderError")

\* `with _session_scope() as db: ...`: the finally clause closes the session
\* and the exception of the body, if any, goes on to the caller
_session_scope(body) == body

\* variant: the exception of the body is caught and an empty list returned
search_text_swallow(embed_raises, inner) ==
    IF embed_raises \/ inner.status # "ok" THEN Ok(<<>>) ELSE inner

search_text(embed_raises, inner) ==
    IF embed_raises THEN EmbedderError ELSE _session_scope(inner)

\* retrieve_context, form A (question) with embed_raises as the embedder
\* decides, form B (session, vector) with embed_raises = FALSE
retrieve_context(embed_raises, inner) ==
    IF embed_raises THEN EmbedderError
    ELSE LET done == _session_scope(inner)
         IN  IF done.status # "ok" THEN done
             ELSE [done EXCEPT !.value = _format_blocks(done.hits)]

\* the entry point called, around the _search_top_k call it makes
EntryPoint(entry, embed_raises, inner) ==
    CASE entry = "_search_top_k" -> inner
      [] entry = "search_text" -> search_text(embed_raises, inner)
      [] entry = "retrieve_context_A" -> retrieve_context(embed_raises, inner)
      [] entry = "retrieve_context_B" -> retrieve_context(FALSE, inner)

-----------------------------------------------------------------------------
(* _clean_query *)

\* the characters _BRACKET_RE matches, half-width and full-width
OpenBrackets == {"[", "(", "FULLWIDTH_LPAREN", "LEFT_BLACK_LENTICULAR"}
CloseBrackets == {"]", ")", "FULLWIDTH_RPAREN", "RIGHT_BLACK_LENTICULAR"}

\* _BRACKET_RE.match(c) for a one-character string c: the first alternative
\* takes an opening bracket, the second a closing bracket at the end
BracketMatch(c) == c \in OpenBrackets \cup CloseBrackets

\* re.sub(r"\s+", " ", q)
RECURSIVE CollapseWs(_)
CollapseWs(q) ==
    IF q = <<>> THEN <<>>
    ELSE IF Head(q) \in WhiteSpace THEN <<" ">> \o CollapseWs(LStrip(q))
    ELSE <<Head(q)>> \o CollapseWs(Tail(q))

\* the while loop of _clean_query, on a stripped q
RECURSIVE Unwrap(_)
Unwrap(q) ==
    IF Len(q) > 2 /\ BracketMatch(q[1]) /\ BracketMatch(q[Len(q)])
    THEN Unwrap(Strip(SubSeq(q, 2, Len(q) - 1)))
    ELSE q

\* variant: `if` instead of `while`, one pair of brackets removed at most
_clean_query_once(q) ==
    LET t == Strip(q)
    IN  CollapseWs(IF Len(t) > 2 /\ BracketMatch(t[1]) /\ BracketMatch(t[Len(t)])
                   THEN Strip(SubSeq(t, 2, Len(t) - 1)) ELSE t)

_clean_query(q) == CollapseWs(Unwrap(Strip(q)))

-----------------------------------------------------------------------------
(* _split_blocks (routers/qa.py) *)

\* str.find(sep) + 1, or 0
FindSep(t, sep) ==
    IF Contains(t, sep)
    THEN CHOOSE i \in 1..(Len(t) - Len(sep) + 1) :
             /\ SubSeq(t, i, i + Len(sep) - 1) = sep
             /\ \A j \in 1..(i - 1) : SubSeq(t, j, j + Len(sep) - 1) # sep
    ELSE 0

\* t.split(sep)
RECURSIVE SplitOn(_, _)
SplitOn(t, sep) ==
    LET i == FindSep(t, sep)
    IN  IF i = 0 THEN <<t>>
        ELSE <<SubSeq(t, 1, i - 1)>> \o SplitOn(SubSeq(t, i + Len(sep), Len(t)), sep)

DigitChars == Range(Digits)

\* number of characters c of set S at t[i], t[i+1], ...
RECURSIVE RunLen(_, _, _)
RunLen(t, i, S) ==
    IF i <= Len(t) /\ t[i] \in S THEN 1 + RunLen(t, i + 1, S) ELSE 0

\* length of the match of (\d+\.\s|\(|###\s) at position i of t, 0 if none
MarkerLen(t, i) ==
    LET d == RunLen(t, i, DigitChars)
    IN  IF d >= 1
        THEN IF i + d + 1 <= Len(t) /\ t[i + d] = "." /\ t[i + d + 1] \in WhiteSpace
             THEN d + 2 ELSE 0
        ELSE IF i <= Len(t) /\ t[i] = "(" THEN 1
        ELSE IF i + 3 <= Len(t) /\ SubSeq(t, i, i + 2) = <<"#","#","#">>
                /\ t[i + 3] \in WhiteSpace THEN 4
        ELSE 0

\* start of the leftmost match of \n{2,}(?=marker) at or after position i, 0
\* if none; the match is the whole run of newlines that starts there
RECURSIVE FindBreak(_, _)
FindBreak(t, i) ==
    IF i > Len(t) THEN 0
    ELSE LET r == RunLen(t, i, {"\n"})
         IN  IF r >= 2 /\ MarkerLen(t, i + r) > 0 THEN i
             ELSE FindBreak(t, i + Max(r, 1))

\* re.split(r"\n{2,}(?=(\d+\.\s|\(|###\s))", t): the pieces between the
\* matches, each match followed by the text of its group
RECURSIVE ReSplit(_)
ReSplit(t) ==
    LET i == FindBreak(t, 1)
    IN  IF i = 0 THEN <<t>>
        ELSE LET r == RunLen(t, i, {"\n"})
                 m == MarkerLen(t, i + r)
             IN  <<SubSeq(t, 1, i - 1), SubSeq(t, i + r, i + r + m - 1)>>
                 \o ReSplit(SubSeq(t, i + r, Len(t)))

\* the loop that rebuilds the blocks from the tokens, and the final append
RECURSIVE Rebuild(_, _)
Rebuild(tokens, buf) ==
    IF tokens = <<>> THEN (IF Strip(buf) # <<>> THEN <<buf>> ELSE <<>>)
    ELSE LET tk == Head(tokens)
         IN  IF MarkerLen(tk, 1) > 0
             THEN (IF Strip(buf) # <<>> THEN <<buf>> ELSE <<>>)
                  \o Rebuild(Tail(tokens), tk)
             ELSE Rebuild(Tail(tokens), buf \o tk)

NonBlank(b) == Strip(b) # <<>>

_split_blocks(ctx_text) ==
    IF ctx_text = <<>> THEN <<>>
    ELSE LET parts == SelectSeq(SplitOn(ctx_text, Separator), NonBlank)
             rebuilt == SelectSeq(Rebuild(ReSplit(ctx_text), <<>>), NonBlank)
             cleaned == [i \in 1..Len(rebuilt) |-> Strip(rebuilt[i])]
         IN  IF Len(parts) > 1 THEN parts
             ELSE IF cleaned # <<>> THEN cleaned
             ELSE <<Strip(ctx_text)>>

-----------------------------------------------------------------------------
(* retrieve_context_base (services/vector_search.py) *)

BASE_BUDGET_MULTIPLIER == 6
BASE_BUDGET_MIN == 30

\* budget = max(int(top_k) * 6, 30)
BaseBudget(top_k) == Max(top_k * BASE_BUDGET_MULTIPLIER, BASE_BUDGET_MIN)

\* the insurer of the WHERE clause: the statement has one only `if want and
\* want != common`
BaseFilter(want) == IF Falsy(want) \/ want = Common THEN <<>> ELSE want

\* the score column of a row with a NULL embedding is NULL, and stays None in
\* the dictionary: no cosine is below -1
NullScore == 0 - ScoreScale - 1

\* dict(r) of a row of the statement, with its COALESCE columns
BaseHit(r, query_vec) ==
    [doc_id |-> r.doc_id, chunk_id |-> r.chunk_id,
     clause_title |-> r.clause_title, content |-> OrElse(r.content, <<>>),
     file_name |-> OrElse(r.file_name, r.doc_id), page |-> r.page,
     source |-> r.source,
     score |-> IF r.embedding = NullVec THEN NullScore
               ELSE ScoreOf(r.embedding, query_vec)]

BaseHits(rows, query_vec) == [i \in 1..Len(rows) |-> BaseHit(rows[i], query_vec)]

\* what db.execute(sql, params).mappings().all() may do
BaseExecute(rows, query_vec, want, limit) ==
    Execute(rows, query_vec, BaseFilter(want), limit, FALSE)

\* retrieve_context_base from what line 93 did
retrieve_context_base(fetched, query_vec, top_k, insurer) ==
    IF fetched.status # "ok" THEN Raised(fetched.status)
    ELSE LET want == _norm_insurer_py(insurer)
             hits == BaseHits(fetched.rows, query_vec)
             want_hits == SelectSeq(hits, LAMBDA h : _norm_insurer_py(h.source) = want)
             common_hits == SelectSeq(hits, LAMBDA h : _norm_insurer_py(h.source) = Common)
         IN  IF hits = <<>> THEN Ok(<<>>)
             ELSE IF ~Falsy(want) /\ want_hits # <<>> THEN Ok(Take(want_hits, top_k))
             ELSE IF common_hits # <<>> THEN Ok(Take(common_hits, top_k))
             ELSE Ok(Take(hits, top_k))

-----------------------------------------------------------------------------
(* The handlers /qa/ask and /qa/search (routers/qa.py) *)

\* a number that may be None
NoNumber == [null |-> TRUE, whole |-> 0, frac |-> <<>>]
Number(whole, frac) == [null |-> FALSE, whole |-> whole, frac |-> frac]

DigitValue(c) == (CHOOSE i \in 1..Len(Digits) : Digits[i] = c) - 1

\* int(d) for a string of digits
RECURSIVE StrToInt(_)
StrToInt(d) ==
    IF d = <<>> THEN 0
    ELSE 10 * StrToInt(SubSeq(d, 1, Len(d) - 1)) + DigitValue(d[Len(d)])

\* b.splitlines()[0] of a block that has a line
FirstLine(b) ==
    LET i == FindSep(b, <<"\n">>)
    IN  IF i = 0 THEN b ELSE SubSeq(b, 1, i - 1)

\* group 1 of the match of [pP]\.?\s*(\d{1,4}) at position i of t, <<>> if
\* there is no match there
PageDigitsAt(t, i) ==
    LET Group(j) ==
            LET k == j + RunLen(t, j, WhiteSpace)
            IN  SubSeq(t, k, k + Min(RunLen(t, k, DigitChars), 4) - 1)
        dotted == IF i + 1 <= Len(t) /\ t[i + 1] = "." THEN Group(i + 2) ELSE <<>>
    IN  IF i > Len(t) \/ t[i] \notin {"p", "P"} THEN <<>>
        ELSE IF dotted # <<>> THEN dotted
        ELSE Group(i + 1)

\* re.search(r"[pP]\.?\s*(\d{1,4})", title), then int(m.group(1))
PageOf(title) ==
    IF \E i \in 1..Len(title) : PageDigitsAt(title, i) # <<>>
    THEN LET i == CHOOSE i \in 1..Len(title) :
                      /\ PageDigitsAt(title, i) # <<>>
                      /\ \A j \in 1..(i - 1) : PageDigitsAt(title, j) = <<>>
         IN  Number(StrToInt(PageDigitsAt(title, i)), <<>>)
    ELSE NoNumber

\* group 2 of the match of (score|jeomsu)\s*[:=]\s*([0-9.]+) at position i
ScoreTextAt(t, i) ==
    LET Word(w) == i + Len(w) - 1 <= Len(t) /\ SubSeq(t, i, i + Len(w) - 1) = w
        After(j) ==
            LET k == j + RunLen(t, j, WhiteSpace)
            IN  IF k <= Len(t) /\ t[k] \in {":", "="}
                THEN LET m == k + 1 + RunLen(t, k + 1, WhiteSpace)
                     IN  SubSeq(t, m, m + RunLen(t, m, DigitChars \cup {"."}) - 1)
                ELSE <<>>
    IN  IF Word(<<"s","c","o","r","e">>) THEN After(i + 5)
        ELSE IF Word(<<"jeom","su">>) THEN After(i + 2)
        ELSE <<>>

\* float(text) of a text of digits and dots: ValueError unless it has one dot
\* at most and a digit
ParseFloat(text) ==
    LET dots == Len(SelectSeq(text, LAMBDA c : c = "."))
        i == FindSep(text, <<".">>)
        whole == IF i = 0 THEN text ELSE SubSeq(text, 1, i - 1)
        frac == IF i = 0 THEN <<>> ELSE SubSeq(text, i + 1, Len(text))
        RECURSIVE NoTrailingZero(_)
        NoTrailingZero(f) ==
            IF f # <<>> /\ f[Len(f)] = "0"
            THEN NoTrailingZero(SubSeq(f, 1, Len(f) - 1)) ELSE f
    IN  IF dots > 1 \/ Len(text) = dots THEN NoNumber
        ELSE Number(StrToInt(whole), NoTrailingZero(frac))

\* re.search(r"(score|jeomsu)\s*[:=]\s*([0-9.]+)", title), then float
ScoreIn(title) ==
    IF \E i \in 1..Len(title) : ScoreTextAt(title, i) # <<>>
    THEN LET i == CHOOSE i \in 1..Len(title) :
                      /\ ScoreTextAt(title, i) # <<>>
                      /\ \A j \in 1..(i - 1) : ScoreTextAt(title, j) = <<>>
         IN  ParseFloat(ScoreTextAt(title, i))
    ELSE NoNumber

\* one reference, made of block b, the i-th
Reference(b, i) ==
    LET title == Take(IF b = <<>> THEN <<"geun","geo"," ">> \o IntToStr(i)
                      ELSE FirstLine(b), 200)
    IN  [title |-> title, page |-> PageOf(title), score |-> ScoreIn(title),
         snippet |-> IF Len(b) <= 2000 THEN b
                     ELSE Take(b, 2000) \o <<"ELLIPSIS">>]

_blocks_to_references(ctx_text) ==
    LET blocks == _split_blocks(ctx_text)
    IN  [i \in 1..Len(blocks) |-> Reference(blocks[i], i)]

\* what the LLM does when /qa/ask calls it: no OPENAI_API_KEY, a reply, or an
\* exception of the client
LlmStates == {"unavailable", "succeeds", "raises"}
LlmReply == <<" ","a","n","s","w","e","r">>

\* JSONResponse({"ok": False, "error": ...}, status_code=200)
ErrorReply(error) == [status_code |-> 200, ok |-> FALSE, error |-> error]

\* an exception that leaves the handler: FastAPI answers 500, and the body
\* has no ok field to read
InternalServerError(error) == [status_code |-> 500, ok |-> FALSE, error |-> error]

\* the dictionary /qa/ask returns, sent with status 200
AskReply(answer, context, references, top_k) ==
    [status_code |-> 200, ok |-> TRUE, answer |-> answer, context |-> context,
     references |-> references, requested_top_k |-> top_k,
     returned_refs |-> Len(references)]

\* the dictionary /qa/search returns, sent with status 200
SearchReply(blocks) ==
    [status_code |-> 200, ok |-> TRUE,
     results |-> [i \in 1..Len(blocks) |-> [rank |-> i, text |-> blocks[i]]],
     count |-> Len(blocks)]

\* variant: the first block is taken without the padding, _split_blocks(ctx_text)[0]
FirstBlock_Unpadded(ctx_text) ==
    LET blocks == _split_blocks(ctx_text)
    IN  IF blocks = <<>> THEN Raised("IndexError") ELSE Ok(blocks[1])

\* first = (_split_blocks(ctx_text) + [""])[0]
FirstBlock(ctx_text) == Ok((_split_blocks(ctx_text) \o << <<>> >>)[1])

\* POST /qa/ask, with what _retrieve_context did and what the LLM does
ask(retrieval, llm, top_k) ==
    IF retrieval.status # "ok"
    THEN ErrorReply(<<"retrieval_failed", retrieval.status>>)
    ELSE LET ctx_text == retrieval.value
             references == _blocks_to_references(ctx_text)
             first == FirstBlock(ctx_text)
             answer ==
                 CASE llm = "succeeds" -> Strip(LlmReply)
                   [] llm = "raises" ->
                        <<"LLM_FAILED">> \o Take(first.value, 1000) \o <<"error">>
                   [] llm = "unavailable" ->
                        <<"LLM_DISABLED">> \o Take(first.value, 1000)
         IN  IF llm # "succeeds" /\ first.status # "ok"
             THEN InternalServerError(first.status)
             ELSE AskReply(answer, ctx_text, references, top_k)

\* variant: /qa/search without its try block
search_unguarded(retrieval) ==
    IF retrieval.status # "ok" THEN InternalServerError(retrieval.status)
    ELSE SearchReply(_split_blocks(retrieval.value))

\* POST /qa/search
search(retrieval) ==
    IF retrieval.status # "ok"
    THEN ErrorReply(<<"search_failed", retrieval.status>>)
    ELSE SearchReply(_split_blocks(retrieval.value))

-----------------------------------------------------------------------------
(* POST /chat/completion (routers/chat.py): the messages sent to the LLM *)

SYSTEM_PROMPT == <<"SYSTEM_PROMPT">>

ChatMsg(role, content) == [role |-> role, content |-> content]

\* _coerce_messages: req.messages, or the single message when the list is
\* empty and req.message is not None; each item as a dictionary
_coerce_messages(req) ==
    IF req.messages = <<>> /\ req.message # None
    THEN <<ChatMsg("user", req.message)>>
    ELSE req.messages

\* the list completion() hands to _run_chat.  It is never empty, and
\* _normalize_messages of openai_service.py passes a list that is not empty
\* to the client as it is.
completion(req) ==
    LET msgs == _coerce_messages(req)
    IN  IF \A i \in 1..Len(msgs) : msgs[i].role # "system"
        THEN <<ChatMsg("system", SYSTEM_PROMPT)>> \o msgs
        ELSE msgs

-----------------------------------------------------------------------------
(* The state machine *)

NoRequest == [called |-> FALSE, entry |-> "none", query_vec |-> <<>>,
              insurer |-> None, top_k |-> 0, fault |-> "none"]
NoResponse == [status |-> "none", hits |-> <<>>, value |-> <<>>]

\* what may go wrong outside the table: nothing, the embedder, the database
Faults == {"none", "embed", "execute"}

TopKs == {-1, 0, 1, 2, MaxTopK + 1}

\* the arguments of the calls during which the embedder or the database fails
FaultInsurers == {None, SAMSUNG}
FaultTopKs == {0, 2}

NoArg == [kind |-> "none", v |-> <<>>]
NoResult == [fn |-> "none", value |-> <<>>]

\* no _with_retries call, no thread in _get_embedder, no session, empty chat
\* tables
NoRetry == [status |-> "none", retries |-> 0, backoff |-> 0, i |-> 0,
            outcomes |-> <<>>, slept |-> <<>>, value |-> 0, error |-> "none"]
NoEmbedder == [_EMBEDDER |-> 0, built |-> 0, received |-> {},
               threads |-> [t \in 1..MaxThreads |-> [pc |-> "idle", local |-> 0]]]
NoSessions == [pc |-> "none", entry |-> "none", opened |-> <<>>, events |-> <<>>,
               calls |-> 0, pending |-> "none"]
NoChatLog == [schema |-> "none", conversations |-> {}, messages |-> {},
              requests |-> <<>>, issued |-> 0]

ProcsIdle ==
    /\ retry = NoRetry
    /\ embedder = NoEmbedder
    /\ sessions = NoSessions
    /\ chatlog = NoChatLog

\* the retrieval and the text functions at rest
RetrievalIdle ==
    /\ store = {}
    /\ request = NoRequest
    /\ raw_hits = <<>>
    /\ response = NoResponse
    /\ arg = NoArg
    /\ result = NoResult

Init == RetrievalIdle /\ ProcsIdle

Forget ==
    /\ request' = NoRequest
    /\ raw_hits' = <<>>
    /\ response' = NoResponse
    /\ UNCHANGED <<arg, result, procs>>

\* one row upserted by a loader.  A call is one statement on the table, so
\* the loaders write before or after it: after Return.
IngestChunk(c) ==
    /\ ~request.called
    /\ Cardinality(store) < MaxChunks
    /\ \A d \in store : <<d.doc_id, d.chunk_id>> # <<c.doc_id, c.chunk_id>>
    /\ store' = store \cup {c}
    /\ Forget

\* ingest_pdf: all chunks of one PDF upserted in one statement, here into an
\* empty table
IngestPdf(policy_type) ==
    /\ ~request.called
    /\ store = {}
    /\ store' = BigDoc(policy_type)
    /\ Forget

\* backfill_embeddings: every row with a NULL embedding gets its embedding
Backfill ==
    /\ ~request.called
    /\ \E c \in store : c.embedding = NullVec
    /\ store' = {IF c.embedding = NullVec
                 THEN [c EXCEPT !.embedding = PassageEmbedding(c.content)]
                 ELSE c : c \in store}
    /\ Forget

\* the list raw_hits when _search_top_k returns: its dictionaries are those
\* the filter and the dedup passed on to _rerank_by_keywords
RawHitsAtReturn(hits_in, want) ==
    LET given == Range(_dedup_by_file_page(FilterHits(hits_in, want)))
    IN  [i \in 1..Len(hits_in) |->
            IF hits_in[i] \in given THEN GivenAfterRerank(hits_in[i]) ELSE hits_in[i]]

\* every (raw_hits, inner) the retrieval under the entry points may end with
\* on the table `rows`; with a failing embedder it is never reached
Retrievals(rows, query_vec, insurer, top_k, fault) ==
    IF fault = "embed"
    THEN {[raw_hits |-> <<>>, inner |-> NoResponse]}
    ELSE {[raw_hits |-> IF fetched.status = "ok"
                        THEN RawHitsAtReturn(RawHits(fetched.rows, query_vec),
                                             Want(insurer))
                        ELSE <<>>,
           inner |-> _search_top_k(fetched, query_vec, insurer, top_k)] :
          fetched \in Execute(rows, query_vec, Want(insurer), Budget(top_k),
                              fault = "execute")}

\* every (raw_hits, response) a call of `entry` may end with on the table `rows`
Outcomes(rows, entry, query_vec, insurer, top_k, fault) ==
    {[raw_hits |-> r.raw_hits,
      response |-> EntryPoint(entry, fault = "embed", r.inner)] :
     r \in Retrievals(rows, query_vec, insurer, top_k, fault)}

\* one call of an entry point; calls do not overlap on a session.  The
\* embedder returns vectors of the dimension of the table; only the vector
\* forms can be given another one.
Search(query_vec, insurer, top_k, fault) ==
    /\ ~request.called
    /\ \E r \in Retrievals(store, query_vec, insurer, top_k, fault) :
       \E entry \in QuestionEntries \cup VectorEntries :
          /\ entry \in QuestionEntries => query_vec \in QueryVecs
          /\ entry \in VectorEntries => fault # "embed"
          /\ request' = [called |-> TRUE, entry |-> entry, query_vec |-> query_vec,
                         insurer |-> insurer, top_k |-> top_k, fault |-> fault]
          /\ raw_hits' = r.raw_hits
          /\ response' = EntryPoint(entry, fault = "embed", r.inner)
    /\ UNCHANGED <<store, arg, result, procs>>

\* the caller takes the result; the call leaves nothing behind
Return ==
    /\ request.called
    /\ Forget
    /\ UNCHANGED store

Next ==
    \/ \E c \in Corpus : IngestChunk(c)
    \/ \E policy_type \in {SAMSUNG, Common} : IngestPdf(policy_type)
    \/ Backfill
    \/ \E query_vec \in VectorArgs, insurer \in Insurers, top_k \in TopKs :
           Search(query_vec, insurer, top_k, "none")
    \/ \E query_vec \in QueryVecs, insurer \in FaultInsurers, top_k \in FaultTopKs,
          fault \in Faults \ {"none"} :
           Search(query_vec, insurer, top_k, fault)
    \/ Return

Spec == Init /\ [][Next]_vars

-----------------------------------------------------------------------------
(* The same table under calls that name an insurer *)

\* insurer arguments with a non-empty want: two insurers, and a fragment of
\* an alias of the common category, which the ILIKE pattern matches
NamedInsurers == {SAMSUNG, HYUNDAI, <<"pyo">>}
NamedTopKs == {1, 2}

NamedNext ==
    \/ \E c \in Corpus : IngestChunk(c)
    \/ \E policy_type \in {SAMSUNG, Common} : IngestPdf(policy_type)
    \/ Backfill
    \/ \E query_vec \in QueryVecs, insurer \in NamedInsurers, top_k \in NamedTopKs :
           Search(query_vec, insurer, top_k, "none")
    \/ Return

NamedSpec == Init /\ [][NamedNext]_vars

-----------------------------------------------------------------------------
(* The same table under calls of retrieve_context_base *)

BaseTopKs == {0, 1, 2}

\* one call of retrieve_context_base(db, query_vec, top_k, insurer)
SearchBase(query_vec, insurer, top_k) ==
    /\ ~request.called
    /\ \E fetched \in BaseExecute(store, query_vec, _norm_insurer_py(insurer),
                                   BaseBudget(top_k)) :
          /\ request' = [called |-> TRUE, entry |-> "retrieve_context_base",
                         query_vec |-> query_vec, insurer |-> insurer,
                         top_k |-> top_k, fault |-> "none"]
          /\ raw_hits' = BaseHits(fetched.rows, query_vec)
          /\ response' = retrieve_context_base(fetched, query_vec, top_k, insurer)
    /\ UNCHANGED <<store, arg, result, procs>>

BaseNext ==
    \/ \E c \in Corpus : IngestChunk(c)
    \/ \E policy_type \in {SAMSUNG, Common} : IngestPdf(policy_type)
    \/ Backfill
    \/ \E query_vec \in VectorArgs, insurer \in Insurers, top_k \in BaseTopKs :
           SearchBase(query_vec, insurer, top_k)
    \/ Return

BaseSpec == Init /\ [][BaseNext]_vars

-----------------------------------------------------------------------------
(* The text functions, each applied once to an argument drawn at the start *)

Strings(alphabet, n) == UNION {[1..k -> alphabet] : k \in 0..n}

NameChars == {"H", "I", "h", "i", " ", "\t", "gong", "tong"}
ListedNames ==
    { SAMSUNG, HYUNDAI, PYOJUN,
      <<"S","a","m","s","u","n","g","F","i","r","e">>,
      <<"s","a","m","s","u","n","g","f","i","r","e">>,
      <<"S","a","m","s","u","n","g"," ","F","i","r","e">>,
      <<"d","b","i","n","s","u","r","a","n","c","e">>,
      <<"D","B","I","n","s","u","r","a","n","c","e">> }
Names == {None} \cup Strings(NameChars, MaxNameLen) \cup ListedNames

QueryChars == {"(", ")", "FULLWIDTH_RPAREN", " ", "\n", "a"}
Questions == Strings(QueryChars, MaxQueryLen)

ContentChars == {"a", "\n", "(", " "}
Contents == Strings(ContentChars, MaxContentLen)

\* a hit as _search_top_k returns it, with the given content
SampleHit(page, file_name, clause_title, content) ==
    [doc_id |-> <<"s">>, chunk_id |-> page, content |-> content,
     policy_type |-> SAMSUNG, page |-> page, file_name |-> file_name,
     clause_title |-> clause_title, score |-> ScoreScale]

ListedHits ==
    { SampleHit(1, PdfName(<<"s">>), None, <<"a">>),
      SampleHit(2, PdfName(<<"s">>), <<"je","1","jo">>, <<"a","\n","\n","(","a",")">>),
      SampleHit(0, None, None, <<>>) }

ChunkLists ==
    {<<>>}
    \cup {<<SampleHit(1, PdfName(<<"s">>), None, c)>> : c \in Contents}
    \cup UNION {[1..k -> ListedHits] : k \in 2..MaxBlocks}

\* what _search_top_k does under _retrieve_context when a handler calls it
ScanErrors == {"TypeError", "DataError", "OperationalError"}
Scans == {Ok(l) : l \in ChunkLists} \cup {Raised(e) : e \in ScanErrors}

\* a request to /qa/ask or /qa/search with all that happens while it is served
QaRequests ==
    {[top_k |-> 5, embed_raises |-> FALSE, scan |-> sc, llm |-> l] :
        sc \in Scans, l \in LlmStates}
    \cup {[top_k |-> 5, embed_raises |-> TRUE, scan |-> NoResponse, llm |-> l] :
             l \in LlmStates}

\* the requests to /chat/completion: `message` absent, empty or given, and
\* `messages` of any roles
ChatRoles == {"system", "user", "assistant"}
ChatTexts == {None, <<>>, <<"h","i">>}
ChatRequests ==
    {[message |-> t, messages |-> l] :
        t \in ChatTexts,
        l \in UNION {[1..k -> {ChatMsg(r, <<"a">>) : r \in ChatRoles}] :
                        k \in 0..MaxMessages}}

TextInit ==
    /\ store = {}
    /\ request = NoRequest
    /\ raw_hits = <<>>
    /\ response = NoResponse
    /\ arg \in {[kind |-> "name", v |-> n] : n \in Names}
             \cup {[kind |-> "question", v |-> q] : q \in Questions}
             \cup {[kind |-> "hits", v |-> l] : l \in ChunkLists}
             \cup {[kind |-> "qa", v |-> r] : r \in QaRequests}
             \cup {[kind |-> "chat", v |-> r] : r \in ChatRequests}
    /\ result = NoResult
    /\ ProcsIdle

Apply(kind, fn, value) ==
    /\ arg.kind = kind
    /\ result = NoResult
    /\ result' = [fn |-> fn, value |-> value]
    /\ UNCHANGED <<store, request, raw_hits, response, arg, procs>>

NormInsurer == Apply("name", "_norm_insurer", _norm_insurer(arg.v))
NormInsurerPy == Apply("name", "_norm_insurer_py", _norm_insurer_py(arg.v))
CleanQuery == Apply("question", "_clean_query", _clean_query(arg.v))
\* _split_blocks(retrieve_context(...)), as /qa/search and /qa/ask call it
FormatAndSplit == Apply("hits", "_split_blocks", _split_blocks(_format_blocks(arg.v)))

\* _retrieve_context(req.query, req.policy_type, req.top_k): form A
_retrieve_context(r) == retrieve_context(r.embed_raises, r.scan)

QaAsk == Apply("qa", "ask", ask(_retrieve_context(arg.v), arg.v.llm, arg.v.top_k))
QaSearch == Apply("qa", "search", search(_retrieve_context(arg.v)))

ChatCompletion == Apply("chat", "completion", completion(arg.v))

TextNext ==
    \/ NormInsurer \/ NormInsurerPy \/ CleanQuery \/ FormatAndSplit
    \/ QaAsk \/ QaSearch \/ ChatCompletion

TextSpec == TextInit /\ [][TextNext]_vars

-----------------------------------------------------------------------------
(* _with_retries (services/openai_service.py), one call in steps *)

\* retries = -1 makes range(retries + 1) empty
Retries == -1..MaxRetries
\* backoff in tenths of a second; the default is 0.8
Backoffs == {1, 8}

\* except (RateLimitError, APIConnectionError, APIError)
RetryableErrors == {"RateLimitError", "APIConnectionError", "APIError"}
\* what fn() may do: return, raise one of those, raise anything else
FnOutcomes == {"ok"} \cup RetryableErrors \cup {"ValueError"}

RECURSIVE Pow2(_)
Pow2(n) == IF n <= 0 THEN 1 ELSE 2 * Pow2(n - 1)

\* variant: if i > retries: raise
Exhausted_Late(i, retries) == i > retries

\* if i >= retries: raise
Exhausted(i, retries) == i >= retries

\* _with_retries(fn, retries=retries, backoff=backoff) is called
RetryCall(retries, backoff) ==
    /\ retry.status = "none"
    /\ retry' = [NoRetry EXCEPT !.status = "loop", !.retries = retries,
                                !.backoff = backoff]
    /\ UNCHANGED <<store, request, raw_hits, response, arg, result,
                   embedder, sessions, chatlog>>

\* one turn of the loop: fn() is invoked and does `outcome`.  The value fn
\* returns is named by the number of the invocation that returned it.
Invoke(outcome) ==
    /\ retry.status = "loop"
    /\ retry.i <= retry.retries
    /\ LET outcomes == Append(retry.outcomes, outcome)
       IN  retry' =
             IF outcome = "ok"
             THEN [retry EXCEPT !.outcomes = outcomes, !.status = "returned",
                                !.value = Len(outcomes)]
             ELSE IF outcome \in RetryableErrors /\ ~Exhausted(retry.i, retry.retries)
             THEN [retry EXCEPT !.outcomes = outcomes, !.status = "sleep"]
             ELSE [retry EXCEPT !.outcomes = outcomes, !.status = "raised",
                                !.error = outcome]
    /\ UNCHANGED <<store, request, raw_hits, response, arg, result,
                   embedder, sessions, chatlog>>

\* time.sleep(backoff * (2 ** i)), then the next i
Sleep ==
    /\ retry.status = "sleep"
    /\ retry' = [retry EXCEPT !.slept = Append(@, retry.backoff * Pow2(retry.i)),
                              !.i = @ + 1, !.status = "loop"]
    /\ UNCHANGED <<store, request, raw_hits, response, arg, result,
                   embedder, sessions, chatlog>>

\* the range is used up: the function ends without a return statement
FallThrough ==
    /\ retry.status = "loop"
    /\ retry.i > retry.retries
    /\ retry' = [retry EXCEPT !.status = "returned", !.value = 0]
    /\ UNCHANGED <<store, request, raw_hits, response, arg, result,
                   embedder, sessions, chatlog>>

RetryNext ==
    \/ \E retries \in Retries, backoff \in Backoffs : RetryCall(retries, backoff)
    \/ \E outcome \in FnOutcomes : Invoke(outcome)
    \/ Sleep
    \/ FallThrough

RetrySpec == Init /\ [][RetryNext]_vars

-----------------------------------------------------------------------------
(* _get_embedder (services/rag_service.py) on the worker threads *)

\* An SBertEmbeddings instance is named by the number of its construction;
\* 0 is None.  The handlers are plain `def` functions, which FastAPI runs on
\* the threads of a pool, and loading the model takes long enough for the
\* threads to interleave between any two of the steps below.
Threads == 1..MaxThreads

ThreadStep(t, pc, local) ==
    [embedder EXCEPT !.threads[t] = [pc |-> pc, local |-> local]]

\* a handler on thread t calls _get_embedder()
EnterGetEmbedder(t) ==
    /\ embedder.threads[t].pc = "idle"
    /\ embedder' = ThreadStep(t, "check", 0)
    /\ UNCHANGED <<store, request, raw_hits, response, arg, result,
                   retry, sessions, chatlog>>

\* if _EMBEDDER is None:
CheckNone(t) ==
    /\ embedder.threads[t].pc = "check"
    /\ embedder' = ThreadStep(t, IF embedder._EMBEDDER = 0 THEN "construct"
                                 ELSE "return", 0)
    /\ UNCHANGED <<store, request, raw_hits, response, arg, result,
                   retry, sessions, chatlog>>

\* SBertEmbeddings(model_dir, ...): the model is loaded, or the ValueError of
\* a failed load leaves _get_embedder
Construct(t, loaded) ==
    /\ embedder.threads[t].pc = "construct"
    /\ embedder' =
          IF loaded
          THEN [ThreadStep(t, "assign", embedder.built + 1)
                    EXCEPT !.built = embedder.built + 1]
          ELSE ThreadStep(t, "idle", 0)
    /\ UNCHANGED <<store, request, raw_hits, response, arg, result,
                   retry, sessions, chatlog>>

\* _EMBEDDER = <the instance constructed>
AssignGlobal(t) ==
    /\ embedder.threads[t].pc = "assign"
    /\ embedder' = [ThreadStep(t, "return", 0)
                       EXCEPT !._EMBEDDER = embedder.threads[t].local]
    /\ UNCHANGED <<store, request, raw_hits, response, arg, result,
                   retry, sessions, chatlog>>

\* return _EMBEDDER: the caller receives what the global holds now
ReturnGlobal(t) ==
    /\ embedder.threads[t].pc = "return"
    /\ embedder' = [ThreadStep(t, "idle", 0)
                       EXCEPT !.received = @ \cup {embedder._EMBEDDER}]
    /\ UNCHANGED <<store, request, raw_hits, response, arg, result,
                   retry, sessions, chatlog>>

EmbedderNext ==
    \E t \in Threads :
        \/ EnterGetEmbedder(t)
        \/ CheckNone(t)
        \/ \E loaded \in BOOLEAN : Construct(t, loaded)
        \/ AssignGlobal(t)
        \/ ReturnGlobal(t)

EmbedderSpec == Init /\ [][EmbedderNext]_vars

-----------------------------------------------------------------------------
(* _session_scope under search_text and retrieve_context, in steps *)

\* sessions.opened[k] is the number of times the k-th session made by
\* SessionLocal() was closed; sessions.events lists what the call in
\* progress did so far.
SessionEntries == {"search_text", "retrieve_context_A", "retrieve_context_B"}

SessionStep(pc, event) ==
    [sessions EXCEPT !.pc = pc, !.events = Append(@, event)]

\* an entry point is called; form B brings the session of its caller
SessionCall(entry) ==
    /\ sessions.pc = "none"
    /\ sessions.calls < MaxCalls
    /\ sessions' = [sessions EXCEPT !.entry = entry, !.events = <<>>,
                                    !.pending = "none", !.calls = @ + 1,
                                    !.pc = IF entry = "retrieve_context_B"
                                           THEN "scan" ELSE "embed"]
    /\ UNCHANGED <<store, request, raw_hits, response, arg, result,
                   retry, embedder, chatlog>>

\* vec = _get_embedder().embed([q], is_query=True)[0]
EmbedQuestion(ok) ==
    /\ sessions.pc = "embed"
    /\ sessions' = IF ok THEN SessionStep("open", "embed")
                   ELSE SessionStep("raised", "embed_raised")
    /\ UNCHANGED <<store, request, raw_hits, response, arg, result,
                   retry, embedder, chatlog>>

\* _session_scope: s = SessionLocal(), before the try block
OpenSession(ok) ==
    /\ sessions.pc = "open"
    /\ sessions' = IF ok
                   THEN [SessionStep("scan", "open") EXCEPT !.opened = Append(@, 0)]
                   ELSE SessionStep("raised", "open_raised")
    /\ UNCHANGED <<store, request, raw_hits, response, arg, result,
                   retry, embedder, chatlog>>

\* variant: _session_scope without try/finally, `yield s; s.close()`
AfterBody_NoFinally(entry, outcome) ==
    IF entry = "retrieve_context_B" THEN (IF outcome = "ok" THEN "format" ELSE "raised")
    ELSE IF outcome = "ok" THEN "close" ELSE "raised"

\* where the body of the with statement goes when it ends: to the finally
\* clause of _session_scope, however it ends; form B has no with statement
AfterBody(entry, outcome) ==
    IF entry = "retrieve_context_B" THEN (IF outcome = "ok" THEN "format" ELSE "raised")
    ELSE "close"

\* _search_top_k(db, vec, ...) returns or raises
ScanWithSession(outcome) ==
    /\ sessions.pc = "scan"
    /\ sessions' = [SessionStep(AfterBody(sessions.entry, outcome),
                                IF outcome = "ok" THEN "scan" ELSE "scan_raised")
                       EXCEPT !.pending = outcome]
    /\ UNCHANGED <<store, request, raw_hits, response, arg, result,
                   retry, embedder, chatlog>>

\* finally: s.close(); then the return value or the exception goes on
CloseSession ==
    /\ sessions.pc = "close"
    /\ LET k == Len(sessions.opened)
           next == IF sessions.pending # "ok" THEN "raised"
                   ELSE IF sessions.entry = "search_text" THEN "returned"
                   ELSE "format"
       IN  sessions' = [SessionStep(next, "close") EXCEPT !.opened[k] = @ + 1]
    /\ UNCHANGED <<store, request, raw_hits, response, arg, result,
                   retry, embedder, chatlog>>

\* return _format_blocks(hits)
FormatHits ==
    /\ sessions.pc = "format"
    /\ sessions' = SessionStep("returned", "format")
    /\ UNCHANGED <<store, request, raw_hits, response, arg, result,
                   retry, embedder, chatlog>>

\* the caller has the result or the exception
SessionCallEnds ==
    /\ sessions.pc \in {"returned", "raised"}
    /\ sessions' = [sessions EXCEPT !.pc = "none"]
    /\ UNCHANGED <<store, request, raw_hits, response, arg, result,
                   retry, embedder, chatlog>>

SessionNext ==
    \/ \E entry \in SessionEntries : SessionCall(entry)
    \/ \E ok \in BOOLEAN : EmbedQuestion(ok)
    \/ \E ok \in BOOLEAN : OpenSession(ok)
    \/ \E outcome \in {"ok"} \cup ScanErrors : ScanWithSession(outcome)
    \/ CloseSession
    \/ FormatHits
    \/ SessionCallEnds

SessionSpec == Init /\ [][SessionNext]_vars

-----------------------------------------------------------------------------
(* POST /chat/log (routers/chatlog.py) *)

\* chatlog.conversations and chatlog.messages are the committed rows, each
\* with the number tx of the request that committed it; chatlog.requests is
\* what each request was given and what it did; chatlog.issued counts the
\* calls of uuid.uuid4().

\* str(uuid.uuid4()): a string no earlier call returned
Uuid(n) == <<"u">> \o IntToStr(n)

\* the statements name the tables conversations and messages; no file of the
\* repository creates them, so messages.conv_id may or may not carry a
\* foreign key to conversations.id
CreateTables(fk) ==
    /\ chatlog.schema = "none"
    /\ chatlog' = [chatlog EXCEPT !.schema = IF fk THEN "fk" ELSE "plain"]
    /\ UNCHANGED <<store, request, raw_hits, response, arg, result,
                   retry, embedder, sessions>>

LogFaults == {"none", "insert_conversation", "insert_message", "commit"}

\* req.conv_id as the client may send it: absent, empty, an id of its own, or
\* an id an earlier response carried
ConvIds ==
    {None, <<>>, <<"x">>}
        \cup {chatlog.requests[i].conv_id : i \in {j \in 1..Len(chatlog.requests) :
                                              chatlog.requests[j].status = 200}}

\* log_message(req, db): the statements run in one transaction of the
\* request's session; any exception rolls it back and gives 500
log_message(conv_id_in, fault) ==
    LET tx == Len(chatlog.requests) + 1
        generated == Falsy(conv_id_in)
        conv_id == IF generated THEN Uuid(chatlog.issued + 1) ELSE conv_id_in
        inserts_conversation == conv_id_in = None
        pending == IF inserts_conversation THEN {[id |-> conv_id, tx |-> tx]} ELSE {}
        visible == {c.id : c \in chatlog.conversations \cup pending}
        fk_violation == chatlog.schema = "fk" /\ conv_id \notin visible
        failed == \/ inserts_conversation /\ fault = "insert_conversation"
                  \/ fault = "insert_message"
                  \/ fk_violation
                  \/ fault = "commit"
        done == [given |-> conv_id_in, conv_id |-> conv_id, generated |-> generated,
                 inserted_conversation |-> inserts_conversation
                                           /\ fault # "insert_conversation",
                 status |-> IF failed THEN 500 ELSE 200]
    IN  [chatlog EXCEPT
            !.issued = IF generated THEN @ + 1 ELSE @,
            !.requests = Append(@, done),
            !.conversations = IF failed THEN @ ELSE @ \cup pending,
            !.messages = IF failed THEN @
                         ELSE @ \cup {[conv_id |-> conv_id, tx |-> tx]}]

LogMessage(conv_id_in, fault) ==
    /\ chatlog.schema # "none"
    /\ Len(chatlog.requests) < MaxRequests
    /\ fault = "insert_conversation" => conv_id_in = None
    /\ chatlog' = log_message(conv_id_in, fault)
    /\ UNCHANGED <<store, request, raw_hits, response, arg, result,
                   retry, embedder, sessions>>

ChatLogNext ==
    \/ \E fk \in BOOLEAN : CreateTables(fk)
    \/ \E conv_id_in \in ConvIds, fault \in LogFaults : LogMessage(conv_id_in, fault)

ChatLogSpec == Init /\ [][ChatLogNext]_vars

TypeOK ==
    /\ request.called \in BOOLEAN
    /\ request.entry \in QuestionEntries \cup VectorEntries
                         \cup {"none", "retrieve_context_base"}
    /\ request.fault \in Faults
    /\ response.status \in {"none", "ok", "TypeError", "DataError",
                            "OperationalError", "EmbedderError"}

-----------------------------------------------------------------------------
(* Vocabulary of the properties: the last call and the store it ran on *)

ReqWant == Want(request.insurer)
ReqTopK == request.top_k
Answered == request.called /\ response.status = "ok"

\* a call during which the embedder and the database worked, with a query
\* vector of the dimension of the stored embeddings
PlainCall ==
    /\ request.called
    /\ request.fault = "none"
    /\ \A c \in store :
           c.embedding # NullVec => Len(c.embedding) = Len(request.query_vec)

\* the normalised category of a stored row
Cat(c) == _norm_insurer(c.source)
HitCat(h) == _norm_insurer(h.policy_type)

NoNullEmbedding == \A c \in store : c.embedding # NullVec
NoPageCollision == \A c, d \in store : c # d => DedupKey(c) # DedupKey(d)
NoKeywordBonus == \A c \in store : _keyword_score(c.content) = 0

SameChunk(h, g) == h.doc_id = g.doc_id /\ h.chunk_id = g.chunk_id
Returned(h) == \E i \in 1..Len(response.hits) : SameChunk(response.hits[i], h)

\* the hits that reach the truncation
Survivors == Ranked(raw_hits, ReqWant)

Scores(hits) == [i \in 1..Len(hits) |-> hits[i].score]

-----------------------------------------------------------------------------
(* C1..C10: _search_top_k *)

\* C1 (as claimed): when no row has the requested category but a row of the
\* common category exists, the call returns a non-empty list of common
\* chunks only.  Stated for stores without NULL embeddings.
C1_FallbackToCommon ==
    ( /\ PlainCall
      /\ ReqWant # <<>> /\ ReqWant # Common
      /\ NoNullEmbedding
      /\ \A c \in store : Cat(c) # ReqWant
      /\ \E c \in store : Cat(c) = Common )
    => /\ response.status = "ok"
       /\ response.hits # <<>>
       /\ \A i \in 1..Len(response.hits) : HitCat(response.hits[i]) = Common

\* C2 (as claimed): on a non-empty store with no row of the requested
\* category and no common row, the call still returns a non-empty list made
\* of rows of the store, led by the candidates nearest to the query vector.
C2_TotalFallback ==
    ( /\ PlainCall
      /\ store # {}
      /\ NoNullEmbedding
      /\ \A c \in store : Cat(c) # _norm_insurer(request.insurer)
      /\ \A c \in store : Cat(c) # Common )
    => /\ response.status = "ok"
       /\ response.hits # <<>>
       /\ \A i \in 1..Len(response.hits) :
              \E c \in store : SameChunk(response.hits[i], c)
       /\ \A c \in store :
              L2Sq(c.embedding, request.query_vec)
                  >= L2Sq((CHOOSE d \in store : SameChunk(raw_hits[1], d)).embedding,
                          request.query_vec)

\* C3 (as claimed): on a store of A rows and common rows, without page
\* collisions and without keyword bonus, a call for insurer A with top_k = k
\* returns the k best-scoring rows of the whole store, best first.
C3_CommonAlwaysEligible ==
    ( /\ PlainCall
      /\ ReqTopK >= 1
      /\ ReqWant # <<>> /\ ReqWant # Common
      /\ NoNullEmbedding /\ NoPageCollision /\ NoKeywordBonus
      /\ \A c \in store : Cat(c) \in {ReqWant, Common}
      /\ \E c \in store : Cat(c) = ReqWant
      /\ \E c \in store : Cat(c) = Common )
    => /\ response.status = "ok"
       /\ \A i \in 1..Len(response.hits) :
              \E c \in store : SameChunk(response.hits[i], c)
       /\ Scores(response.hits)
              = Take(Scores(SortedReverse(
                         [i \in 1..Cardinality(store) |->
                              Hit(ById(store)[i], request.query_vec)])),
                     ReqTopK)

\* C4: when a category is requested and some scanned candidate is of that
\* category or common, every returned chunk is of that category or common.
C4_Tier1Exclusive ==
    ( /\ Answered
      /\ ReqWant # <<>>
      /\ \E i \in 1..Len(raw_hits) : HitCat(raw_hits[i]) \in {ReqWant, Common} )
    => \A j \in 1..Len(response.hits) :
           HitCat(response.hits[j]) \in {ReqWant, Common}

\* a call whose scan brought back both an eligible and an off-category
\* candidate, and which returned something
C4_Witness ==
    /\ Answered
    /\ ReqWant # <<>>
    /\ \E i \in 1..Len(raw_hits) : HitCat(raw_hits[i]) \in {ReqWant, Common}
    /\ \E i \in 1..Len(raw_hits) : HitCat(raw_hits[i]) \notin {ReqWant, Common}
    /\ response.hits # <<>>

\* C5 (as claimed): with k >= 1 and a requested category, the call returns at
\* least min(k, available) chunks, available being the number of rows of the
\* requested or the common category.  Stated for stores without NULL
\* embeddings and without page collisions, and for k within the cap.
C5_BudgetSufficiency ==
    ( /\ PlainCall
      /\ ReqTopK >= 1 /\ ReqTopK <= MaxTopK
      /\ ReqWant # <<>>
      /\ NoNullEmbedding /\ NoPageCollision
      /\ \E c \in store : Cat(c) \in {ReqWant, Common} )
    => /\ response.status = "ok"
       /\ Len(response.hits)
              >= Min(ReqTopK, Cardinality({c \in store : Cat(c) \in {ReqWant, Common}}))

\* C6 (as claimed): of two candidates on the same (file, page) with different
\* chunk_id and different scores, exactly the better-scoring one is returned.
\* Stated for pairs that both pass the insurer filter, in calls where the
\* truncation removes nothing.
C6_DedupKeepsBetter ==
    Answered =>
        \A i, j \in 1..Len(raw_hits) :
            ( /\ i # j
              /\ DedupKey(raw_hits[i]) = DedupKey(raw_hits[j])
              /\ raw_hits[i].chunk_id # raw_hits[j].chunk_id
              /\ raw_hits[i].score > raw_hits[j].score
              /\ raw_hits[i] \in Range(FilterHits(raw_hits, ReqWant))
              /\ raw_hits[j] \in Range(FilterHits(raw_hits, ReqWant))
              /\ Len(Survivors) <= ClampTopK(ReqTopK) )
            => Returned(raw_hits[i]) /\ ~Returned(raw_hits[j])

\* position of a returned hit among the scanned candidates
RawIndex(h) == CHOOSE i \in 1..Len(raw_hits) : SameChunk(raw_hits[i], h)
Matches(h) == _keyword_score(OrElse(h.content, <<>>))

C8_ScanOrderIsScoreOrder ==
    request.called =>
        \A i, j \in 1..Len(raw_hits) :
            i < j => raw_hits[i].score >= raw_hits[j].score

C10_NonPositiveClamped ==
    (request.called /\ ReqTopK <= 0)
    => /\ [raw_hits |-> raw_hits, response |-> response]
              \in Outcomes(store, request.entry, request.query_vec,
                           request.insurer, 1, request.fault)
       /\ raw_hits # <<>> => response.status = "ok" /\ Len(response.hits) = 1

\* a call with top_k <= 0 that returned its one chunk out of several
C10_Witness ==
    /\ Answered
    /\ ReqTopK <= 0
    /\ Len(Survivors) > 1
    /\ Len(response.hits) = 1

-----------------------------------------------------------------------------
(* C11..C13, C17: errors of the retrieval entry points *)

\* the dimension of the stored embeddings differs from that of the query
WrongDimension ==
    \E c \in store :
        c.embedding # NullVec /\ Len(c.embedding) # Len(request.query_vec)

\* C11 (as claimed): a call of a (session, vector) entry point with a query
\* vector whose dimension is not that of the stored embeddings raises; it
\* never returns a result.
C11_DimensionMismatchFailsFast ==
    ( /\ request.called
      /\ request.entry \in VectorEntries
      /\ request.fault = "none"
      /\ WrongDimension )
    => response.status # "ok"

\* C12 (as claimed): on an empty table every entry point raises; none
\* returns the empty list or the empty string.
C12_EmptyStoreIsError ==
    (request.called /\ store = {}) => response.status # "ok"

\* C13: when the embedder or the statement raises, the entry point called
\* raises that exception and returns nothing: an unreachable database gives
\* OperationalError, a failing embedder its own error, a vector comparison
\* that the database rejects DataError.
C13_NoSilentFallback ==
    request.called =>
        /\ request.fault = "execute" => response = Raised("OperationalError")
        /\ request.fault = "embed" => response = EmbedderError
        /\ ( /\ request.fault = "none"
             /\ DimensionMismatch(store, request.query_vec, ReqWant) )
           => response = Raised("DataError")

\* a question form called on a filled table while the database is unreachable
C13_Witness ==
    /\ request.called
    /\ request.entry \in QuestionEntries
    /\ request.fault = "execute"
    /\ \E c \in store : c.embedding # NullVec
    /\ response.status = "OperationalError"
    /\ response.value = <<>>

\* C17 (as claimed): a call returns what it may return on the table without
\* its rows of NULL embedding.
C17_NullEmbeddingsInvisible ==
    PlainCall =>
        \E o \in Outcomes({c \in store : c.embedding # NullVec}, request.entry,
                           request.query_vec, request.insurer, request.top_k,
                           request.fault) :
            response = o.response

-----------------------------------------------------------------------------
(* C16: raw category strings of one canonical form *)

\* raw category strings a loader may have written
RawCategories == {Common, PYOJUN, SAMSUNG, HYUNDAI,
                  <<"S","a","m","s","u","n","g"," ","F","i","r","e">>}

\* the chunks of a response, in order, with their scores
ChunksOf(r) ==
    [i \in 1..Len(r.hits) |->
        <<r.hits[i].doc_id, r.hits[i].chunk_id, r.hits[i].score>>]

\* C16 (as claimed): replacing the raw category of one row by another raw
\* string of the same normalised form leaves the result of the call as it
\* is: same status, same chunks, same order.
C16_RawCategoryInterchangeable ==
    PlainCall =>
        \A c \in store, s \in RawCategories :
            _norm_insurer(s) = Cat(c) =>
                \E o \in Outcomes((store \ {c}) \cup {[c EXCEPT !.source = s]},
                                   request.entry, request.query_vec,
                                   request.insurer, request.top_k, request.fault) :
                    /\ o.response.status = response.status
                    /\ ChunksOf(o.response) = ChunksOf(response)

-----------------------------------------------------------------------------
(* C14, C15: the insurer normalisers *)

Normalised ==
    arg.kind = "name" /\ result.fn \in {"_norm_insurer", "_norm_insurer_py"}

\* a string, as opposed to None
IsString(v) == \A i \in 1..Len(v) : v[i] # "None"

\* C14: _norm_insurer and _norm_insurer_py return None exactly for None and
\* for the empty string, and a string for every other input.
C14_NormalizerTotality ==
    Normalised =>
        /\ result.value = None <=> (arg.v = None \/ arg.v = <<>>)
        /\ result.value # None => IsString(result.value)

\* _norm_insurer on a name made of whitespace only: the result is the empty
\* string, not None
C14_Witness ==
    /\ Normalised
    /\ result.fn = "_norm_insurer"
    /\ arg.v # None /\ arg.v # <<>>
    /\ SelectSeq(arg.v, NotWs) = <<>>
    /\ result.value = <<>>

\* a name without its whitespace, in lower case
FoldKey(name) == Lower(SelectSeq(name, NotWs))

\* C15 (as claimed, in its particular form): a name that differs from a
\* listed alias only in whitespace and letter case maps to the canonical
\* label of that alias.
C15_AliasIgnoresCaseAndSpace ==
    (arg.kind = "name" /\ result.fn = "_norm_insurer" /\ arg.v # None) =>
        \A i \in 1..Len(mapping) :
            FoldKey(arg.v) = FoldKey(mapping[i][1]) => result.value = mapping[i][2]

-----------------------------------------------------------------------------
(* C18: _format_blocks and _split_blocks *)

\* C18 (as claimed): splitting the formatted context gives back the blocks
\* of the chunks, one by one and in order.  Stated for chunks whose content
\* is not blank and does not contain the separator.
C18_ContextRoundTrip ==
    ( /\ arg.kind = "hits"
      /\ result.fn = "_split_blocks"
      /\ \A i \in 1..Len(arg.v) :
             /\ Strip(arg.v[i].content) # <<>>
             /\ ~Contains(arg.v[i].content, Separator) )
    => result.value = [i \in 1..Len(arg.v) |-> _format_blocks(<<arg.v[i]>>)]

-----------------------------------------------------------------------------
(* C19: _clean_query *)

Cleaned == arg.kind = "question" /\ result.fn = "_clean_query"

Trimmed(q) == q = <<>> \/ (q[1] \notin WhiteSpace /\ q[Len(q)] \notin WhiteSpace)
NoWsRun(q) ==
    \A i \in 1..(Len(q) - 1) : ~(q[i] \in WhiteSpace /\ q[i + 1] \in WhiteSpace)
Enclosed(q) == q # <<>> /\ BracketMatch(q[1]) /\ BracketMatch(q[Len(q)])

\* q is p without k characters at each end, all of them brackets
Unwrapped(p, q) ==
    \E k \in 0..Len(p) :
        /\ Len(p) = Len(q) + 2 * k
        /\ SubSeq(p, k + 1, k + Len(q)) = q
        /\ \A i \in (1..k) \cup ((Len(p) - k + 1)..Len(p)) : BracketMatch(p[i])

\* C19 (as claimed): the cleaned question has no whitespace at its ends, no
\* run of two whitespace characters, and does not both begin and end with a
\* bracket.  Read in its weakest sense: it does not begin with an opening
\* bracket and end with a closing one.
C19_CleanQueryOutput ==
    Cleaned =>
        /\ Trimmed(result.value)
        /\ NoWsRun(result.value)
        /\ ~( /\ Len(result.value) >= 2
              /\ result.value[1] \in OpenBrackets
              /\ result.value[Len(result.value)] \in CloseBrackets )

\* C19 (amended): the cleaned question has no whitespace at its ends, no run
\* of two whitespace characters, and, when longer than two characters, does
\* not both begin and end with a bracket; apart from whitespace it is the
\* question without some brackets at its two ends.
C19_CleanQueryOutputOverTwo ==
    Cleaned =>
        /\ Trimmed(result.value)
        /\ NoWsRun(result.value)
        /\ Len(result.value) > 2 => ~Enclosed(result.value)
        /\ Unwrapped(SelectSeq(arg.v, NotWs), SelectSeq(result.value, NotWs))

\* a question in two pairs of brackets, cleaned down to its text
C19_Witness ==
    /\ Cleaned
    /\ Len(arg.v) >= 5
    /\ Enclosed(arg.v) /\ Enclosed(SubSeq(arg.v, 2, Len(arg.v) - 1))
    /\ result.value # <<>>
    /\ ~Enclosed(result.value)

-----------------------------------------------------------------------------
(* C20: the calls read and keep nothing *)

\* the stored row a hit was built from
RowOf(h) == CHOOSE c \in store : SameChunk(c, h)

-----------------------------------------------------------------------------
(* C21, C22: the handlers /qa/ask and /qa/search *)

\* the request served and what retrieval did for it
Served(fn) == arg.kind = "qa" /\ result.fn = fn
Retrieved == _retrieve_context(arg.v)
RetrievalRaised == Retrieved.status # "ok"
EmptyContext == Retrieved.status = "ok" /\ Retrieved.value = <<>>

\* C21: when retrieval returns the empty context, /qa/ask answers 200 with
\* ok = true, references = [] and returned_refs = 0, whatever the LLM does.
C21_EmptyRetrievalNoCrash ==
    (Served("ask") /\ EmptyContext) =>
        /\ result.value.status_code = 200
        /\ result.value.ok
        /\ result.value.references = <<>>
        /\ result.value.returned_refs = 0

\* /qa/ask answered a request with no chunk found while the LLM raised
C21_Witness ==
    /\ Served("ask") /\ EmptyContext
    /\ arg.v.llm = "raises"
    /\ result.value.answer = <<"LLM_FAILED", "error">>

\* C22: /qa/search and /qa/ask answer 200 with ok = false when retrieval
\* raises, never 5xx, and answer ok = true only when retrieval raised nothing.
C22_NoServerError ==
    (Served("search") \/ Served("ask")) =>
        /\ result.value.status_code = 200
        /\ RetrievalRaised => ~result.value.ok
        /\ result.value.ok => ~RetrievalRaised

\* /qa/search answered ok = false for a scan that raised
C22_Witness ==
    /\ Served("search")
    /\ Retrieved.status = "DataError"
    /\ result.value = ErrorReply(<<"search_failed", "DataError">>)

-----------------------------------------------------------------------------
(* C23: retrieve_context_base *)

\* a call of retrieve_context_base that asks for a chunk at least, for an
\* insurer, with a vector of the dimension of the stored embeddings
BaseCall ==
    /\ request.called /\ request.entry = "retrieve_context_base"
    /\ request.top_k >= 1
    /\ ~Falsy(_norm_insurer_py(request.insurer))
    /\ \A c \in store :
           c.embedding # NullVec => Len(c.embedding) = Len(request.query_vec)

OfCategory(cat) == {c \in store : _norm_insurer_py(c.source) = cat}
AllHitsOf(cat) ==
    \A i \in 1..Len(response.hits) : _norm_insurer_py(response.hits[i].source) = cat

\* C23 (as claimed): the chunks of the requested insurer alone when the store
\* has any, else the common chunks alone when it has any, else the nearest
\* of any category; so an empty result only on an empty store.
C23_BasePriorityOrder ==
    BaseCall =>
        LET want == _norm_insurer_py(request.insurer)
        IN  /\ response.status = "ok"
            /\ store # {} => response.hits # <<>>
            /\ OfCategory(want) # {} => AllHitsOf(want)
            /\ (OfCategory(want) = {} /\ OfCategory(Common) # {}) => AllHitsOf(Common)

-----------------------------------------------------------------------------
(* C24: _with_retries *)

Invocations == Len(retry.outcomes)
RetryDone == retry.status \in {"returned", "raised"}

\* C24: fn is invoked at most retries + 1 times and again only after one of
\* the three errors; the first invocation that returns ends the call with
\* its value; the sleep after attempt i is backoff * 2^i; one of the three
\* errors at attempt `retries`, or any other exception at any attempt,
\* leaves the call as it is.
C24_RetryProtocol ==
    LET n == Invocations
    IN  /\ n <= retry.retries + 1
        /\ \A j \in 1..(n - 1) : retry.outcomes[j] \in RetryableErrors
        /\ \A j \in 1..Len(retry.slept) :
               retry.slept[j] = retry.backoff * Pow2(j - 1)
        /\ (n > 0 /\ retry.status # "loop") => Len(retry.slept) = n - 1
        /\ retry.status = "loop" => Len(retry.slept) = n
        /\ n > 0 =>
             LET last == retry.outcomes[n]
             IN  /\ last = "ok" =>
                        retry.status = "returned" /\ retry.value = n
                 /\ retry.status = "returned" => last = "ok"
                 /\ (last \in RetryableErrors /\ n = retry.retries + 1) =>
                        retry.status = "raised" /\ retry.error = last
                 /\ (last \in RetryableErrors /\ n < retry.retries + 1) =>
                        retry.status \in {"sleep", "loop"}
                 /\ last \notin RetryableErrors \cup {"ok"} =>
                        retry.status = "raised" /\ retry.error = last

\* the default call gave up after three rate-limit errors and two sleeps
C24_Witness ==
    /\ retry.status = "raised" /\ retry.error = "RateLimitError"
    /\ retry.retries = 2 /\ retry.backoff = 8
    /\ Invocations = 3
    /\ retry.slept = <<8, 16>>

-----------------------------------------------------------------------------
(* C25: the messages /chat/completion sends *)

\* the messages the request supplies: its list, or its single message when
\* the list is empty
Supplied ==
    IF arg.v.messages # <<>> THEN arg.v.messages
    ELSE IF arg.v.message # None THEN <<ChatMsg("user", arg.v.message)>>
    ELSE <<>>

HasSystem(msgs) == \E i \in 1..Len(msgs) : msgs[i].role = "system"

\* C25 (as claimed): the list sent is the supplied messages in their order,
\* with SYSTEM_PROMPT put first exactly when none of them has role system,
\* and it holds one supplied message at least.
C25_MessagesSent ==
    (arg.kind = "chat" /\ result.fn = "completion") =>
        /\ result.value = (IF HasSystem(Supplied) THEN <<>>
                           ELSE <<ChatMsg("system", SYSTEM_PROMPT)>>) \o Supplied
        /\ Supplied # <<>>

-----------------------------------------------------------------------------
(* C26: the embedder singleton *)

\* C26 (as claimed): the model is constructed once at most, and all callers
\* receive one and the same instance.
C26_SingletonUnderConcurrency ==
    /\ embedder.built <= 1
    /\ Cardinality(embedder.received) <= 1

-----------------------------------------------------------------------------
(* C27: the lifetime of the sessions *)

CallEnded == sessions.pc \in {"returned", "raised", "none"}
Did(event) == \E i \in 1..Len(sessions.events) : sessions.events[i] = event
Before(e, f) ==
    \A j \in 1..Len(sessions.events) :
        sessions.events[j] = f => \E i \in 1..(j - 1) : sessions.events[i] = e

\* C27: no session is closed twice; when a call has returned or raised, each
\* session opened was closed once; a session is opened only after the
\* question was embedded, and none after the embedding raised.
C27_SessionLifetime ==
    /\ \A k \in 1..Len(sessions.opened) : sessions.opened[k] <= 1
    /\ CallEnded => \A k \in 1..Len(sessions.opened) : sessions.opened[k] = 1
    /\ sessions.entry \in QuestionEntries =>
           /\ Before("embed", "open")
           /\ Did("embed_raised") => ~Did("open")

\* a question call raised out of the scan with its session closed
C27_Witness ==
    /\ sessions.pc = "raised"
    /\ sessions.entry = "retrieve_context_A"
    /\ sessions.events = <<"embed", "open", "scan_raised", "close">>
    /\ sessions.opened[Len(sessions.opened)] = 1

-----------------------------------------------------------------------------
(* C28: the normalisers applied to their own output *)

\* C28: each normaliser maps its output to itself: normalising what
\* _norm_insurer returned gives the same value, and likewise _norm_insurer_py.
C28_NormalizerIdempotent ==
    /\ (arg.kind = "name" /\ result.fn = "_norm_insurer") =>
           _norm_insurer(result.value) = result.value
    /\ (arg.kind = "name" /\ result.fn = "_norm_insurer_py") =>
           _norm_insurer_py(result.value) = result.value

-----------------------------------------------------------------------------
(* C29: the second tier of the insurer filter *)

Tier1(hits_in, want) == SelectSeq(hits_in, LAMBDA h : _insurer_ok(h, want))
Tier2(hits_in) == SelectSeq(hits_in, LAMBDA h : HitCat(h) = Common)
InRawHits(h) == \E i \in 1..Len(raw_hits) : SameChunk(raw_hits[i], h)

\* C29: in a call with a non-empty want whose first filter passes no hit, the
\* second filter passes none either, and the result is taken from all the
\* hits fetched: as many as top_k and the dedup allow.
C29_Tier2NeverSelects ==
    ( /\ Answered
      /\ ~Falsy(ReqWant)
      /\ Tier1(raw_hits, ReqWant) = <<>> )
    => /\ Tier2(raw_hits) = <<>>
       /\ Len(response.hits) =
              Min(ClampTopK(ReqTopK), Len(_dedup_by_file_page(raw_hits)))
       /\ \A i \in 1..Len(response.hits) : InRawHits(response.hits[i])

\* a call for an insurer that fetched hits of which the first filter passed
\* none, and returned one of them
C29_Witness ==
    /\ Answered
    /\ ~Falsy(ReqWant)
    /\ raw_hits # <<>>
    /\ Tier1(raw_hits, ReqWant) = <<>>
    /\ response.hits # <<>>

-----------------------------------------------------------------------------
(* C30: the rows of /chat/log *)

RowsOf(tx) ==
    {c \in chatlog.conversations : c.tx = tx} \cup {m \in chatlog.messages : m.tx = tx}

\* C30: a request that logged its message under a conv_id it generated
\* committed the conversations row of that id in the same transaction, and a
\* request that generated a conv_id inserted the conversation; a failed
\* request committed no row.
C30_ChatLogIntegrity ==
    \A tx \in 1..Len(chatlog.requests) :
        LET r == chatlog.requests[tx]
        IN  /\ (r.generated /\ r.status = 200) =>
                   [id |-> r.conv_id, tx |-> tx] \in chatlog.conversations
            /\ r.generated => r.inserted_conversation \/ r.status = 500
            /\ r.status = 500 => RowsOf(tx) = {}

=============================================================================
